---- MODULE Spec2Model ----
(***************************************************************************)
(* hxntools: the beam-availability gate (detectors/beamstatus.py), the     *)
(* Xspress3 ROI registry with its archive read-back and its energy/bin     *)
(* converters (detectors/xspress3.py), and the scan ID device (scans.py)   *)
(* as state machines.  The components share no state; each has its own     *)
(* next-state relation and specification.                                  *)
(***************************************************************************)
EXTENDS Integers, Sequences, FiniteSets, TLC

(***************************************************************************)
(* Python values.  A value that may be None is a sequence: <<>> is None,   *)
(* <<x>> is the value x.                                                   *)
(***************************************************************************)
None == <<>>
Val(x) == <<x>>
IsNone(v) == v = <<>>
Range(s) == {s[i] : i \in DOMAIN s}

(***************************************************************************)
(* Bounds of the model.                                                    *)
(***************************************************************************)
\* number of DeviceStatus objects trigger() may create in one behaviour
MaxTokens == 2
\* number of ROI definitions the callers store in the registry at once
MaxDefs == 2
\* largest max_retries the callers pass
MaxRetries == 3
\* largest energy (eV) handed to ev_to_bin directly
MaxEv == 35
\* largest bin number (in absolute value) handed to bin_to_ev directly
MaxBin == 12
\* largest number the ScanID-I PV takes
MaxScanId == 5

(***************************************************************************)
(* State.                                                                  *)
(***************************************************************************)
\* the beam gate (BeamStatusDetector)
VARIABLES
    _min_current,   \* BeamStatusDetector._min_current (None or a number)
    _shutter_ok,    \* BeamStatusDetector._shutter_ok
    _current_ok,    \* BeamStatusDetector._current_ok
    _last_status,   \* BeamStatusDetector._last_status: None, <<TRUE>>, <<FALSE>>
    _statuses,      \* BeamStatusDetector._statuses: list of DeviceStatus ids
    done,           \* done[t]: the .done field of DeviceStatus t (all created)
    beam_current,   \* last value the beam_current signal delivered
    shutter_status, \* last value the shutter_status signal delivered
    gate_op,        \* the last handler run: name, argument, return, error
    gate_log,       \* logger.warning calls of the last handler run
    marked          \* tokens `status.done = True` was executed on, last run

gate_vars == <<_min_current, _shutter_ok, _current_ok, _last_status,
               _statuses, done, beam_current, shutter_status, gate_op,
               gate_log, marked>>

\* the ROI registry (Xspress3Rois) and the IOC's ROI PVs
VARIABLES
    _roi_config,    \* Xspress3Rois._roi_config: channel -> roi -> ROISnapshot
    num_roi,        \* Xspress3Rois.num_roi: ROIs per channel the IOC has
    limit_rois,     \* Xspress3Rois.limit_rois
    hw,             \* the IOC's PVs: hw[channel][roi] = bin_low, bin_high, enabled
    roi_op,         \* the last registry call: name, arguments, error
    puts,           \* the PV writes of the last call, in order
    roi_log         \* logger.warning calls of the last call

roi_vars == <<_roi_config, num_roi, limit_rois, hw, roi_op, puts, roi_log>>

\* one read_hdf5 call
VARIABLES
    rd_pc,      \* "idle", "loop" (at the while test), "after" (break), "done"
    rd_args,    \* the call's arguments: wait, max_retries
    rois,       \* the local `rois`: the definitions to extract
    retry,      \* the local `retry`
    warned,     \* the local `warned`
    hdf,        \* the local `hdf`: "unbound" or "open"
    rd_opens,   \* what each h5py.File attempt did: "ok", "fail", "interrupt"
    rd_events,  \* effects of the call so far: logs, sleeps, PV writes
    rd_result,  \* how the call ended: "none", "snapshots" or the error raised
    rd_out      \* the ROISnapshots the generator yielded

rd_vars == <<rd_pc, rd_args, rois, retry, warned, hdf, rd_opens, rd_events,
             rd_result, rd_out>>

\* calls of the module-level converters ev_to_bin / bin_to_ev
VARIABLES
    cv_calls    \* the converter calls made so far: function, argument, result

conv_vars == <<cv_calls>>

\* the scan ID device (ScanID) and one _pre_scan of a scan mixin
VARIABLES
    scan_id,    \* the ScanID-I PV, in half units (2 n is the number n)
    sc_pc,      \* where _pre_scan is: "idle", "get_last", "put", "get_new",
                \* "setup", "done"
    last_id,    \* the local last_id of get_next_scan_id
    new_id,     \* the local new_id of get_next_scan_id
    sc_ret,     \* what get_next_scan_id returned: None until it returns
    sc_result,  \* how _pre_scan went: "none", "RuntimeError", "set_up"
    md_scan_id, \* gs.RE.md['scan_id']: None until stored
    sc_events   \* PV accesses, metadata stores and detector setups so far

sc_vars == <<scan_id, sc_pc, last_id, new_id, sc_ret, sc_result, md_scan_id,
             sc_events>>

vars == <<gate_vars, roi_vars, rd_vars, conv_vars, sc_vars>>

(***************************************************************************)
(*                       BEAM GATE  (beamstatus.py)                        *)
(***************************************************************************)

\* inputs the subscriptions and callers supply
ShutterValues == {None, Val(0), Val(1)}
CurrentValues == {None, Val(100), Val(150)}
MinCurrentValues == {None, Val(100), Val(200)}

\* attributes a BeamStatusDetector instance has (components and fields)
GateAttributes == {"shutter_status", "beam_current", "_min_current",
                   "_shutter_ok", "_current_ok", "_last_status", "_statuses"}

GateOp(name, arg, ret, err) == [name |-> name, arg |-> arg, ret |-> ret, err |-> err]
LogRec(msg, arg) == [msg |-> msg, arg |-> arg]

\* Python 3 `a > b`: TypeError unless both are numbers
CanCompare(a, b) == ~IsNone(a) /\ ~IsNone(b)

\* the `status` property
status(shutter_ok, current_ok) == shutter_ok /\ current_ok

\* _done marking only the first registered waiter
_done_first_only(sts, d) ==
    [t \in DOMAIN d |-> IF sts # <<>> /\ sts[1] = t THEN TRUE ELSE d[t]]

\* _done: status.done = True for every status in self._statuses
_done(sts, d) ==
    [t \in DOMAIN d |-> IF t \in Range(sts) THEN TRUE ELSE d[t]]

\* _check_status emitting its warnings at every evaluation
StatusLog_every_time(st, shutter_ok, current_ok, min_current) ==
    << LogRec("Beam status changed:", None),
       LogRec(IF shutter_ok THEN "Shutters are open"
                            ELSE "Shutters are closed", None),
       LogRec(IF current_ok THEN "Current meets threshold of"
                            ELSE "Current does not meet threshold of",
              min_current) >>

\* the warnings _check_status emits when the status changed
StatusLog(st, shutter_ok, current_ok, min_current) ==
    IF Val(st) # _last_status
    THEN << LogRec("Beam status changed:", None),
            LogRec(IF shutter_ok THEN "Shutters are open"
                                 ELSE "Shutters are closed", None),
            LogRec(IF current_ok THEN "Current meets threshold of"
                                 ELSE "Current does not meet threshold of",
                   min_current) >>
    ELSE <<>>

\* _check_status calling _done whatever the status is
_check_status_always_done(shutter_ok, current_ok) ==
    LET st == status(shutter_ok, current_ok) IN
    /\ done' = _done(_statuses, done)
    /\ marked' = _statuses
    /\ gate_log' = StatusLog(st, shutter_ok, current_ok, _min_current)
    /\ _last_status' = Val(st)
    /\ UNCHANGED _statuses

\* _check_status, run with the freshly assigned _shutter_ok / _current_ok
_check_status(shutter_ok, current_ok) ==
    LET st == status(shutter_ok, current_ok) IN
    /\ done' = IF st THEN _done(_statuses, done) ELSE done
    /\ marked' = IF st THEN _statuses ELSE <<>>
    /\ gate_log' = StatusLog(st, shutter_ok, current_ok, _min_current)
    /\ _last_status' = Val(st)
    /\ UNCHANGED _statuses

InitGate ==
    /\ _min_current = Val(100)
    /\ _shutter_ok = FALSE
    /\ _current_ok = FALSE
    /\ _last_status = None
    /\ _statuses = <<>>
    /\ done = <<>>
    /\ beam_current = None
    /\ shutter_status = None
    /\ gate_op = GateOp("init", None, 0, "none")
    /\ gate_log = <<>>
    /\ marked = <<>>

\* shutter_status subscription callback
_shutter_changed(value) ==
    /\ shutter_status' = value
    /\ _shutter_ok' = (value = Val(1))
    /\ _check_status(value = Val(1), _current_ok)
    /\ gate_op' = GateOp("_shutter_changed", value, 0, "none")
    /\ UNCHANGED <<_min_current, _current_ok, beam_current>>
    /\ UNCHANGED <<roi_vars, rd_vars, conv_vars, sc_vars>>

\* _current_changed comparing with >= instead of >
_current_changed_ge(value) ==
    /\ beam_current' = value
    /\ IF CanCompare(value, _min_current)
       THEN /\ _current_ok' = (value[1] >= _min_current[1])
            /\ _check_status(_shutter_ok, value[1] >= _min_current[1])
            /\ gate_op' = GateOp("_current_changed", value, 0, "none")
       ELSE /\ gate_op' = GateOp("_current_changed", value, 0, "TypeError")
            /\ gate_log' = <<>>
            /\ marked' = <<>>
            /\ UNCHANGED <<_current_ok, _last_status, _statuses, done>>
    /\ UNCHANGED <<_min_current, _shutter_ok, shutter_status>>
    /\ UNCHANGED <<roi_vars, rd_vars, conv_vars, sc_vars>>

\* beam_current subscription callback
_current_changed(value) ==
    /\ beam_current' = value
    /\ IF CanCompare(value, _min_current)
       THEN /\ _current_ok' = (value[1] > _min_current[1])
            /\ _check_status(_shutter_ok, value[1] > _min_current[1])
            /\ gate_op' = GateOp("_current_changed", value, 0, "none")
       ELSE /\ gate_op' = GateOp("_current_changed", value, 0, "TypeError")
            /\ gate_log' = <<>>
            /\ marked' = <<>>
            /\ UNCHANGED <<_current_ok, _last_status, _statuses, done>>
    /\ UNCHANGED <<_min_current, _shutter_ok, shutter_status>>
    /\ UNCHANGED <<roi_vars, rd_vars, conv_vars, sc_vars>>

\* min_current property setter
set_min_current(value) ==
    /\ _min_current' = value
    /\ IF "sr_beam_current" \in GateAttributes
       THEN IF CanCompare(beam_current, value)
            THEN /\ _current_ok' = (beam_current[1] > value[1])
                 /\ _check_status(_shutter_ok, beam_current[1] > value[1])
                 /\ gate_op' = GateOp("min_current", value, 0, "none")
            ELSE /\ gate_op' = GateOp("min_current", value, 0, "TypeError")
                 /\ gate_log' = <<>>
                 /\ marked' = <<>>
                 /\ UNCHANGED <<_current_ok, _last_status, _statuses, done>>
       ELSE /\ gate_op' = GateOp("min_current", value, 0, "AttributeError")
            /\ gate_log' = <<>>
            /\ marked' = <<>>
            /\ UNCHANGED <<_current_ok, _last_status, _statuses, done>>
    /\ UNCHANGED <<_shutter_ok, beam_current, shutter_status>>
    /\ UNCHANGED <<roi_vars, rd_vars, conv_vars, sc_vars>>

\* trigger(): returns a new DeviceStatus
trigger ==
    /\ Len(done) < MaxTokens
    /\ LET new == Len(done) + 1 IN
       IF status(_shutter_ok, _current_ok)
       THEN /\ done' = Append(done, TRUE)
            /\ marked' = <<new>>
            /\ gate_log' = <<>>
            /\ gate_op' = GateOp("trigger", None, new, "none")
            /\ UNCHANGED _statuses
       ELSE /\ done' = Append(done, FALSE)
            /\ _statuses' = Append(_statuses, new)
            /\ marked' = <<>>
            /\ gate_log' = << LogRec("---", None),
                              LogRec("Waiting for beam status to change...", None),
                              LogRec("---", None) >>
            /\ gate_op' = GateOp("trigger", None, new, "none")
    /\ UNCHANGED <<_min_current, _shutter_ok, _current_ok, _last_status,
                   beam_current, shutter_status>>
    /\ UNCHANGED <<roi_vars, rd_vars, conv_vars, sc_vars>>

\* read() that leaves the waiter list alone
read_keeps_waiters ==
    /\ marked' = <<>>
    /\ gate_log' = <<>>
    /\ gate_op' = GateOp("read", None, 0, "none")
    /\ UNCHANGED <<_min_current, _shutter_ok, _current_ok, _last_status,
                   _statuses, done, beam_current, shutter_status>>
    /\ UNCHANGED <<roi_vars, rd_vars, conv_vars, sc_vars>>

\* read(): del self._statuses[:]
read ==
    /\ _statuses' = <<>>
    /\ marked' = <<>>
    /\ gate_log' = <<>>
    /\ gate_op' = GateOp("read", None, 0, "none")
    /\ UNCHANGED <<_min_current, _shutter_ok, _current_ok, _last_status,
                   done, beam_current, shutter_status>>
    /\ UNCHANGED <<roi_vars, rd_vars, conv_vars, sc_vars>>

NextGate ==
    \/ \E v \in ShutterValues : _shutter_changed(v)
    \/ \E v \in CurrentValues : _current_changed(v)
    \/ \E v \in MinCurrentValues : set_min_current(v)
    \/ trigger
    \/ read

\* the gate with the threshold given at construction, driven by readings:
\* the shutter signal delivers None, 0 or 1, the current signal numbers
NextReadings ==
    \/ \E v \in ShutterValues : _shutter_changed(v)
    \/ \E v \in CurrentValues \ {None} : _current_changed(v)
    \/ trigger
    \/ read

\* the gate is usable
Usable == status(_shutter_ok, _current_ok)

(***************************************************************************)
(*                     ROI REGISTRY  (xspress3.py)                         *)
(***************************************************************************)

\* channels and ROI numbers the callers use
Channels == {1, 2}
RoiNums == {1, 2}
\* hardware ROI counts of the detectors modelled (Xspress3Detector num_roi)
NumRoiValues == {1, 2}
\* (ev_low, ev_high) the callers pass, in half eV so that int() has something
\* to cut: (0, 0), (0, 0.5), (0, 5), (10, 30.5), (30.5, 10)
EvPairs == { <<0, 0>>, <<0, 1>>, <<0, 10>>, <<20, 61>>, <<61, 20>> }
\* strings are sequences of character codes (ASCII)
SetNames == {Val(<<120>>)}
AddNames == {<<97>>}
ChannelLists == { <<1>>, <<1, 2>> }
\* what the PVs of a ROI hold when the session starts
HwInitStates == { [bin_low |-> 0, bin_high |-> 0, enabled |-> 0],
                  [bin_low |-> 2, bin_high |-> 4, enabled |-> 1] }

\* int(x) of a number given in half units: truncation toward zero
int(x2) == IF x2 >= 0 THEN x2 \div 2 ELSE -((-x2) \div 2)

\* ev_to_bin rounding to the nearest bin
ev_to_bin_nearest(ev) == (ev + 5) \div 10

\* ev_to_bin: int(ev / 10)
ev_to_bin(ev) == IF ev >= 0 THEN ev \div 10 ELSE -((-ev) \div 10)

\* bin_to_ev: int(bin_) * 10
bin_to_ev(bin_) == bin_ * 10

\* a ROISnapshot that does not keep the epics_roi it is given
ROISnapshot_drops_handle(chan, ev_low, ev_high, name, data, epics_roi) ==
    [name |-> name, chan |-> chan, ev_low |-> ev_low, ev_high |-> ev_high,
     bin_low |-> ev_to_bin(ev_low), bin_high |-> ev_to_bin(ev_high),
     data |-> data, epics_roi |-> None]

\* ROISnapshot.__new__ called with ev_low and ev_high
ROISnapshot(chan, ev_low, ev_high, name, data, epics_roi) ==
    [name |-> name, chan |-> chan, ev_low |-> ev_low, ev_high |-> ev_high,
     bin_low |-> ev_to_bin(ev_low), bin_high |-> ev_to_bin(ev_high),
     data |-> data, epics_roi |-> epics_roi]

\* EpicsROI(prefix, channel, roi): the handle names the PVs it drives
EpicsROI(channel, roi) == [channel |-> channel, roi_num |-> roi]

\* one PV write
Put(pv, val) == [pv |-> pv, val |-> val]
ApplyPut(h, p) == [h EXCEPT ![p.pv] = p.val]
RECURSIVE ApplyPuts(_, _)
ApplyPuts(h, ps) ==
    IF ps = <<>> THEN h ELSE ApplyPuts(ApplyPut(h, Head(ps)), Tail(ps))

\* EpicsROI.clear without the enabled.put(0)
EpicsROI_clear_keeps_enabled(h) ==
    IF h.bin_low = h.bin_high /\ h.bin_high = 0
    THEN <<>>
    ELSE << Put("bin_low", 0), Put("bin_high", 0) >>

\* EpicsROI.clear: the PV writes it issues when the PVs hold h
EpicsROI_clear(h) ==
    IF h.bin_low = h.bin_high /\ h.bin_high = 0
    THEN <<>>
    ELSE << Put("bin_low", 0), Put("bin_high", 0), Put("enabled", 0) >>

\* EpicsROI.configure_bin without the zero-low step
configure_bin_no_zero_low(h, bin_low, bin_high) ==
    << Put("bin_high", bin_high), Put("bin_low", bin_low),
       Put("enabled", IF bin_high > bin_low THEN 1 ELSE 0) >>

\* EpicsROI.configure_bin enabling the ROI also when high equals low
configure_bin_enable_ge(h, bin_low, bin_high) ==
    (IF bin_high <= h.bin_low THEN << Put("bin_low", 0) >> ELSE <<>>)
    \o << Put("bin_high", bin_high), Put("bin_low", bin_low),
          Put("enabled", IF bin_high >= bin_low THEN 1 ELSE 0) >>

\* EpicsROI.configure_bin: the PV writes it issues when the PVs hold h
configure_bin(h, bin_low, bin_high) ==
    (IF bin_high <= h.bin_low THEN << Put("bin_low", 0) >> ELSE <<>>)
    \o << Put("bin_high", bin_high), Put("bin_low", bin_low),
          Put("enabled", IF bin_high > bin_low THEN 1 ELSE 0) >>

\* EpicsROI.configure
configure(h, ev_low, ev_high) ==
    configure_bin(h, ev_to_bin(ev_low), ev_to_bin(ev_high))

\* str() of a channel number, and the characters used by name_format
Digits(n) == << 48 + n >>
NoneStr == << 78, 111, 110, 101 >>
Underscore == << 95 >>

\* _get_roi_name with the default name_format and channel_prefix = None
_get_roi_name(channel, suffix) ==
    Val(NoneStr \o Digits(channel) \o Underscore \o suffix)

\* a dictionary store that forgets the other keys
DictSet_forgets(d, k, v) == [x \in {k} |-> v]

\* dictionaries as functions
DictSet(d, k, v) == [x \in DOMAIN d \cup {k} |-> IF x = k THEN v ELSE d[x]]
DictDel(d, k) == [x \in DOMAIN d \ {k} |-> d[x]]
EmptyDict == <<>>

\* the state a registry call works on and leaves
RoiState(cfg, h, ps, log, err) ==
    [cfg |-> cfg, hw |-> h, puts |-> ps, log |-> log, err |-> err]

\* PV writes of one EpicsROI recorded with the ROI they went to
Tagged(e, ps) ==
    [i \in DOMAIN ps |-> [channel |-> e.channel, roi_num |-> e.roi_num,
                          pv |-> ps[i].pv, val |-> ps[i].val]]

\* the PVs after handle e issued the writes ps
HwAfter(h, e, ps) ==
    [h EXCEPT ![e.channel][e.roi_num] = ApplyPuts(@, ps)]

\* the number of definitions a registry holds
NumDefs(cfg) ==
    LET RECURSIVE Sum(_)
        Sum(cs) == IF cs = {} THEN 0
                   ELSE LET c == CHOOSE x \in cs : TRUE
                        IN Cardinality(DOMAIN cfg[c]) + Sum(cs \ {c})
    IN Sum(DOMAIN cfg)

\* Xspress3Rois.set(channel, roi, ev_low, ev_high, name) run on state st
set(st, channel, roi, ev_low_arg, ev_high_arg, name) ==
    LET ev_low == int(ev_low_arg)
        ev_high == int(ev_high_arg)
        cfg1 == IF channel \in DOMAIN st.cfg THEN st.cfg
                ELSE DictSet(st.cfg, channel, EmptyDict)
    IN  IF ev_low = ev_high /\ ev_high = 0
        THEN IF roi \in DOMAIN cfg1[channel]
             THEN LET e == cfg1[channel][roi].epics_roi
                      cfg2 == [cfg1 EXCEPT ![channel] = DictDel(@, roi)]
                  IN  IF ~IsNone(e)
                      THEN LET ps == EpicsROI_clear(st.hw[e[1].channel][e[1].roi_num])
                           IN [st EXCEPT !.cfg = cfg2,
                                         !.hw = HwAfter(@, e[1], ps),
                                         !.puts = @ \o Tagged(e[1], ps)]
                      ELSE [st EXCEPT !.cfg = cfg2]
             ELSE [st EXCEPT !.cfg = cfg1]
        ELSE IF roi <= num_roi
             THEN LET e == EpicsROI(channel, roi)
                      ps == configure(st.hw[channel][roi], ev_low, ev_high)
                      info == ROISnapshot(channel, ev_low, ev_high, name,
                                          None, Val(e))
                  IN [st EXCEPT !.cfg = [cfg1 EXCEPT ![channel] =
                                                DictSet(@, roi, info)],
                                !.hw = HwAfter(@, e, ps),
                                !.puts = @ \o Tagged(e, ps)]
             ELSE IF limit_rois
                  THEN [st EXCEPT !.cfg = cfg1, !.err = "ValueError"]
                  ELSE LET info == ROISnapshot(channel, ev_low, ev_high, name,
                                               None, None)
                       IN [st EXCEPT !.cfg = [cfg1 EXCEPT ![channel] =
                                                    DictSet(@, roi, info)],
                                     !.log = Append(@, LogRec(
                                         "ROI will be recorded in fly scans but will not be available for live preview",
                                         name))]

\* Xspress3Rois.clear(channel, roi)
clear(st, channel, roi) == set(st, channel, roi, 0, 0, None)

\* add() storing at the slot after the highest occupied one
RECURSIVE probe_after_last(_, _, _)
probe_after_last(cfg, channel, roi_num) ==
    IF limit_rois /\ roi_num > num_roi
    THEN 0
    ELSE IF channel \in DOMAIN cfg
            /\ \E r \in DOMAIN cfg[channel] : r >= roi_num
         THEN probe_after_last(cfg, channel, roi_num + 1)
         ELSE roi_num

\* add() probing without the limit_rois test
RECURSIVE probe_no_limit(_, _, _)
probe_no_limit(cfg, channel, roi_num) ==
    IF channel \in DOMAIN cfg /\ roi_num \in DOMAIN cfg[channel]
    THEN probe_no_limit(cfg, channel, roi_num + 1)
    ELSE roi_num

\* the probe of add(): the first roi_num from the given one that is unused
\* on the channel; 0 when the limit_rois check raises first
RECURSIVE probe(_, _, _)
probe(cfg, channel, roi_num) ==
    IF limit_rois /\ roi_num > num_roi
    THEN 0
    ELSE IF channel \in DOMAIN cfg /\ roi_num \in DOMAIN cfg[channel]
         THEN probe(cfg, channel, roi_num + 1)
         ELSE roi_num

\* Xspress3Rois.add(ev_low, ev_high, name, channels) run on state st
RECURSIVE add(_, _, _, _, _)
add(st, ev_low_arg, ev_high_arg, name, channels) ==
    IF channels = <<>>
    THEN st
    ELSE LET channel == Head(channels)
             roi_num == probe(st.cfg, channel, 1)
         IN  IF roi_num = 0
             THEN [st EXCEPT !.err = "ValueError"]
             ELSE LET st1 == set(st, channel, roi_num, ev_low_arg, ev_high_arg,
                                 _get_roi_name(channel, name))
                  IN  IF st1.err # "none" THEN st1
                      ELSE add(st1, ev_low_arg, ev_high_arg, name, Tail(channels))

\* a set of numbers in ascending order
RECURSIVE Ascending(_)
Ascending(S) ==
    IF S = {} THEN <<>>
    ELSE LET m == CHOOSE x \in S : \A y \in S : x <= y
         IN <<m>> \o Ascending(S \ {m})

\* the inner loop of clear_all on one channel: clear every hardware handle
RECURSIVE clear_handles(_, _, _)
clear_handles(st, channel, roi_nums) ==
    IF roi_nums = <<>>
    THEN st
    ELSE LET e == st.cfg[channel][Head(roi_nums)].epics_roi
             st1 == IF IsNone(e) THEN st
                    ELSE LET ps == EpicsROI_clear(st.hw[e[1].channel][e[1].roi_num])
                         IN [st EXCEPT !.hw = HwAfter(@, e[1], ps),
                                       !.puts = @ \o Tagged(e[1], ps)]
         IN clear_handles(st1, channel, Tail(roi_nums))

\* Xspress3Rois.clear_all over the given list of channels
RECURSIVE clear_channels(_, _)
clear_channels(st, channels) ==
    IF channels = <<>>
    THEN st
    ELSE LET channel == Head(channels)
         IN  IF channel \notin DOMAIN st.cfg
             THEN [st EXCEPT !.err = "KeyError"]
             ELSE LET st1 == clear_handles(st, channel,
                                           Ascending(DOMAIN st.cfg[channel]))
                      st2 == [st1 EXCEPT !.cfg[channel] = EmptyDict]
                  IN clear_channels(st2, Tail(channels))

\* Xspress3Rois.clear_all(channels); channels None means every key
clear_all(st, channels) ==
    clear_channels(st, IF IsNone(channels) THEN Ascending(DOMAIN st.cfg)
                       ELSE channels[1])

\* a registry call: ev_low, ev_high are the energies after int(), rname
\* the name argument
RoiOp(name, channel, roi, ev_low, ev_high, rname, channels, err) ==
    [name |-> name, channel |-> channel, roi |-> roi, ev_low |-> ev_low,
     ev_high |-> ev_high, rname |-> rname, channels |-> channels,
     err |-> err]

\* the registry before a call
Before == RoiState(_roi_config, hw, <<>>, <<>>, "none")

\* the registry takes the state a call left
Becomes(st) ==
    /\ NumDefs(st.cfg) <= MaxDefs
    /\ _roi_config' = st.cfg
    /\ hw' = st.hw
    /\ puts' = st.puts
    /\ roi_log' = st.log
    /\ UNCHANGED <<num_roi, limit_rois>>
    /\ UNCHANGED <<gate_vars, conv_vars, sc_vars>>

InitRoi ==
    /\ _roi_config = EmptyDict
    /\ num_roi \in NumRoiValues
    /\ limit_rois \in BOOLEAN
    /\ \E h \in HwInitStates :
          hw = [c \in Channels |-> [r \in 1..num_roi |-> h]]
    /\ roi_op = RoiOp("init", 0, 0, 0, 0, None, None, "none")
    /\ puts = <<>>
    /\ roi_log = <<>>

Set(channel, roi, ev, name) ==
    LET st == set(Before, channel, roi, ev[1], ev[2], name) IN
    /\ Becomes(st)
    /\ roi_op' = RoiOp("set", channel, roi, int(ev[1]), int(ev[2]), name,
                       None, st.err)
    /\ UNCHANGED <<rd_vars, sc_vars>>

Clear(channel, roi) ==
    LET st == clear(Before, channel, roi) IN
    /\ Becomes(st)
    /\ roi_op' = RoiOp("clear", channel, roi, 0, 0, None, None, st.err)
    /\ UNCHANGED <<rd_vars, sc_vars>>

ClearAll(channels) ==
    LET st == clear_all(Before, channels) IN
    /\ Becomes(st)
    /\ roi_op' = RoiOp("clear_all", 0, 0, 0, 0, None, channels, st.err)
    /\ UNCHANGED <<rd_vars, sc_vars>>

Add(ev, name, channels) ==
    LET st == add(Before, ev[1], ev[2], name, channels) IN
    /\ Becomes(st)
    /\ roi_op' = RoiOp("add", 0, 0, int(ev[1]), int(ev[2]), Val(name),
                       Val(channels), st.err)
    /\ UNCHANGED <<rd_vars, sc_vars>>

NextRoi ==
    \/ \E c \in Channels, r \in RoiNums, ev \in EvPairs, n \in SetNames :
          Set(c, r, ev, n)
    \/ \E c \in Channels, r \in RoiNums : Clear(c, r)
    \/ \E cs \in {None} \cup {Val(l) : l \in ChannelLists} : ClearAll(cs)
    \/ \E ev \in EvPairs, n \in AddNames, cs \in ChannelLists : Add(ev, n, cs)

(***************************************************************************)
(*              ARCHIVE READ-BACK  (Xspress3Rois.read_hdf5)                *)
(***************************************************************************)

\* Python's str `<`: lexicographic on the character codes
RECURSIVE StrLess(_, _)
StrLess(a, b) ==
    IF b = <<>> THEN FALSE
    ELSE IF a = <<>> THEN TRUE
    ELSE IF a[1] # b[1] THEN a[1] < b[1]
    ELSE StrLess(Tail(a), Tail(b))

\* sorted(rois, key=lambda x: x.name) for str names: a stable insertion
RECURSIVE InsertByName(_, _)
InsertByName(sorted, x) ==
    IF sorted = <<>> THEN <<x>>
    ELSE LET last == sorted[Len(sorted)]
         IN IF StrLess(x.name[1], last.name[1])
            THEN Append(InsertByName(SubSeq(sorted, 1, Len(sorted) - 1), x), last)
            ELSE Append(sorted, x)

RECURSIVE SortedByName(_)
SortedByName(rs) ==
    IF rs = <<>> THEN <<>>
    ELSE InsertByName(SortedByName(SubSeq(rs, 1, Len(rs) - 1)), rs[Len(rs)])

\* sorted() compares names as soon as there are two: None is not orderable
SortRaises(rs) == Len(rs) >= 2 /\ \E i \in DOMAIN rs : IsNone(rs[i].name)

\* the default of `rois`: every definition, by channel then by roi number
RECURSIVE AllRois(_, _)
AllRois(cfg, chans) ==
    IF chans = <<>> THEN <<>>
    ELSE LET chan == cfg[Head(chans)]
             nrois == Ascending(DOMAIN chan)
         IN [i \in DOMAIN nrois |-> chan[nrois[i]]] \o AllRois(cfg, Tail(chans))

\* the snapshot yielded for one definition (data stands for handler.get_roi's)
Yielded(roi_info) ==
    ROISnapshot(roi_info.chan, roi_info.ev_low, roi_info.ev_high,
                roi_info.name, Val("roi_data"), None)

InitRead ==
    /\ rd_pc = "idle"
    /\ rd_args = [wait |-> TRUE, max_retries |-> 2]
    /\ rois = <<>>
    /\ retry = 0
    /\ warned = FALSE
    /\ hdf = "unbound"
    /\ rd_opens = <<>>
    /\ rd_events = <<>>
    /\ rd_result = "none"
    /\ rd_out = <<>>

\* the generator starts: lines 378-386
read_hdf5_start(wait, max_retries) ==
    /\ rd_pc \in {"idle", "done"}
    /\ rd_pc' = "loop"
    /\ rd_args' = [wait |-> wait, max_retries |-> max_retries]
    /\ rois' = AllRois(_roi_config, Ascending(DOMAIN _roi_config))
    /\ retry' = 0
    /\ warned' = FALSE
    /\ hdf' = "unbound"
    /\ rd_opens' = <<>>
    /\ rd_events' = <<>>
    /\ rd_result' = "none"
    /\ rd_out' = <<>>
    /\ UNCHANGED <<gate_vars, roi_vars, conv_vars, sc_vars>>

\* the test after the loop: the retries are exhausted
LoopVerdict(n, max_retries) == n >= max_retries

\* the except branch logging the error at every failed open
FailPrefix_warns_every_time == <<"open_fail", "log_error_still_open">>

\* the effects of the except (IOError, OSError) branch up to the sleep
FailPrefix ==
    <<"open_fail">> \o (IF warned THEN <<>> ELSE <<"log_error_still_open">>)

\* one pass of the while loop whose h5py.File call succeeds: break
attempt_ok ==
    /\ rd_pc = "loop"
    /\ retry < rd_args.max_retries
    /\ retry' = retry + 1
    /\ hdf' = "open"
    /\ rd_opens' = Append(rd_opens, "ok")
    /\ rd_events' = rd_events \o <<"open_ok">>
                    \o (IF warned THEN <<"log_info_opened">> ELSE <<>>)
    /\ rd_pc' = "after"
    /\ UNCHANGED <<rd_args, rois, warned, rd_result, rd_out>>
    /\ UNCHANGED <<gate_vars, roi_vars, conv_vars, sc_vars>>

\* one pass whose h5py.File call raises IOError/OSError
attempt_fail ==
    /\ rd_pc = "loop"
    /\ retry < rd_args.max_retries
    /\ retry' = retry + 1
    /\ warned' = TRUE
    /\ rd_opens' = Append(rd_opens, "fail")
    /\ rd_events' = rd_events \o FailPrefix
                    \o <<"sleep", "capture_put_0", "acquire_put_0">>
    /\ IF rd_args.wait
       THEN rd_pc' = "loop" /\ UNCHANGED rd_result
       ELSE rd_pc' = "done" /\ rd_result' = "RuntimeError: retry disabled"
    /\ UNCHANGED <<rd_args, rois, hdf, rd_out>>
    /\ UNCHANGED <<gate_vars, roi_vars, conv_vars, sc_vars>>

\* Ctrl-C while h5py.File runs
interrupt_open ==
    /\ rd_pc = "loop"
    /\ retry < rd_args.max_retries
    /\ retry' = retry + 1
    /\ rd_opens' = Append(rd_opens, "interrupt")
    /\ rd_events' = rd_events \o <<"interrupt">>
    /\ rd_pc' = "done"
    /\ rd_result' = "RuntimeError: interrupted by Ctrl-C"
    /\ UNCHANGED <<rd_args, rois, warned, hdf, rd_out>>
    /\ UNCHANGED <<gate_vars, roi_vars, conv_vars, sc_vars>>

\* a Ctrl-C during the sleep that only ends the sleep: the loop goes on
interrupt_sleep_swallowed ==
    /\ rd_pc = "loop"
    /\ retry < rd_args.max_retries
    /\ retry' = retry + 1
    /\ warned' = TRUE
    /\ rd_opens' = Append(rd_opens, "fail")
    /\ rd_events' = rd_events \o FailPrefix \o <<"interrupt">>
    /\ rd_pc' = "loop"
    /\ UNCHANGED <<rd_args, rois, hdf, rd_out, rd_result>>
    /\ UNCHANGED <<gate_vars, roi_vars, conv_vars, sc_vars>>

\* Ctrl-C during time.sleep(2.0) after a failed open
interrupt_sleep ==
    /\ rd_pc = "loop"
    /\ retry < rd_args.max_retries
    /\ retry' = retry + 1
    /\ warned' = TRUE
    /\ rd_opens' = Append(rd_opens, "fail")
    /\ rd_events' = rd_events \o FailPrefix \o <<"interrupt">>
    /\ rd_pc' = "done"
    /\ rd_result' = "RuntimeError: interrupted by Ctrl-C"
    /\ UNCHANGED <<rd_args, rois, hdf, rd_out>>
    /\ UNCHANGED <<gate_vars, roi_vars, conv_vars, sc_vars>>

\* after the loop (left by break or by the while test): lines 413-422
read_hdf5_finish ==
    /\ \/ rd_pc = "after"
       \/ rd_pc = "loop" /\ retry >= rd_args.max_retries
    /\ rd_pc' = "done"
    /\ IF LoopVerdict(retry, rd_args.max_retries)
       THEN /\ rd_result' = "RuntimeError: exceeded maximum retries"
            /\ rd_out' = <<>>
       ELSE IF SortRaises(rois)
            THEN /\ rd_result' = "TypeError"
                 /\ rd_out' = <<>>
            ELSE /\ rd_result' = "snapshots"
                 /\ rd_out' = LET srt == SortedByName(rois)
                              IN [i \in DOMAIN srt |-> Yielded(srt[i])]
    /\ UNCHANGED <<rd_args, rois, retry, warned, hdf, rd_opens, rd_events>>
    /\ UNCHANGED <<gate_vars, roi_vars, conv_vars, sc_vars>>

NextRead ==
    \/ \E w \in BOOLEAN, m \in 1..MaxRetries : read_hdf5_start(w, m)
    \/ attempt_ok
    \/ attempt_fail
    \/ interrupt_open
    \/ interrupt_sleep
    \/ read_hdf5_finish

(***************************************************************************)
(*          ENERGY / BIN CONVERSION  (ev_to_bin, bin_to_ev)                *)
(***************************************************************************)

\* arguments the callers pass: energies in eV, bin numbers
Energies == 0..MaxEv
Bins == (-MaxBin)..MaxBin

ConvCall(fn, arg, ret) == [fn |-> fn, arg |-> arg, ret |-> ret]

InitConv == cv_calls = <<>>

\* the value a call in a chain works on: a fresh argument, or the result
\* of the other converter
ChainArg(fresh, other) ==
    IF cv_calls = <<>> THEN fresh
    ELSE IF Len(cv_calls) = 1 /\ cv_calls[1].fn = other
         THEN {cv_calls[1].ret}
         ELSE {}

\* ev_to_bin(ev)
call_ev_to_bin ==
    /\ \E ev \in ChainArg(Energies, "bin_to_ev") :
          cv_calls' = Append(cv_calls, ConvCall("ev_to_bin", ev, ev_to_bin(ev)))
    /\ UNCHANGED <<gate_vars, roi_vars, rd_vars, sc_vars>>

\* bin_to_ev(bin_)
call_bin_to_ev ==
    /\ \E bin_ \in ChainArg(Bins, "ev_to_bin") :
          cv_calls' = Append(cv_calls, ConvCall("bin_to_ev", bin_, bin_to_ev(bin_)))
    /\ UNCHANGED <<gate_vars, roi_vars, rd_vars, sc_vars>>

NextConvert == call_ev_to_bin \/ call_bin_to_ev

(***************************************************************************)
(*                     SCAN ID  (scans.py)                                 *)
(***************************************************************************)

\* what the PV has gained, in half units, when a NextScanID-Cmd.PROC put
\* returns: nothing (the IOC did not process), a fraction, or one
ProcSteps == {0, 1, 2}

\* the mixins with a _pre_scan
Mixins == {"HxnScanMixin1D", "HxnScanMixinOuter"}

\* the test of get_next_scan_id passing every time
scan_id_unchanged_never(last, new) == FALSE

\* the test `last_id == new_id` of get_next_scan_id
scan_id_unchanged(last, new) == last = new

InitScan ==
    /\ scan_id = 0
    /\ sc_pc = "idle"
    /\ last_id = 0
    /\ new_id = 0
    /\ sc_ret = None
    /\ sc_result = "none"
    /\ md_scan_id = None
    /\ sc_events = <<>>

\* a plan's _pre_scan starts: it calls get_next_scan_id()
pre_scan_start(mixin) ==
    /\ sc_pc \in {"idle", "done"}
    /\ sc_pc' = "get_last"
    /\ last_id' = 0
    /\ new_id' = 0
    /\ sc_ret' = None
    /\ sc_result' = "none"
    /\ sc_events' = <<mixin>>
    /\ UNCHANGED <<scan_id, md_scan_id>>
    /\ UNCHANGED <<gate_vars, roi_vars, rd_vars, conv_vars>>

\* last_id = int(self.scan_id.get())
get_last_id ==
    /\ sc_pc = "get_last"
    /\ last_id' = int(scan_id)
    /\ sc_events' = Append(sc_events, "scan_id_get")
    /\ sc_pc' = "put"
    /\ UNCHANGED <<scan_id, new_id, sc_ret, sc_result, md_scan_id>>
    /\ UNCHANGED <<gate_vars, roi_vars, rd_vars, conv_vars>>

\* self.next_scan_id_proc.put(1, wait=True): returns when the IOC is done
proc_put(step) ==
    /\ sc_pc = "put"
    /\ scan_id + step <= 2 * MaxScanId
    /\ scan_id' = scan_id + step
    /\ sc_events' = Append(sc_events, "proc_put_wait")
    /\ sc_pc' = "get_new"
    /\ UNCHANGED <<last_id, new_id, sc_ret, sc_result, md_scan_id>>
    /\ UNCHANGED <<gate_vars, roi_vars, rd_vars, conv_vars>>

\* new_id = int(self.scan_id.get()); the test; the return; and in the
\* mixin gs.RE.md['scan_id'] = get_next_scan_id() - 1
get_new_id ==
    /\ sc_pc = "get_new"
    /\ new_id' = int(scan_id)
    /\ IF scan_id_unchanged(last_id, int(scan_id))
       THEN /\ sc_result' = "RuntimeError"
            /\ sc_pc' = "done"
            /\ sc_events' = Append(sc_events, "scan_id_get")
            /\ UNCHANGED <<sc_ret, md_scan_id>>
       ELSE /\ sc_ret' = Val(int(scan_id))
            /\ md_scan_id' = Val(int(scan_id) - 1)
            /\ sc_pc' = "setup"
            /\ sc_events' = sc_events \o <<"scan_id_get", "md_store">>
            /\ UNCHANGED sc_result
    /\ UNCHANGED <<scan_id, last_id>>
    /\ UNCHANGED <<gate_vars, roi_vars, rd_vars, conv_vars>>

\* scan_setup(self.detectors, ...): the detectors are put in their modes
scan_setup ==
    /\ sc_pc = "setup"
    /\ sc_events' = Append(sc_events, "detector_setup")
    /\ sc_result' = "set_up"
    /\ sc_pc' = "done"
    /\ UNCHANGED <<scan_id, last_id, new_id, sc_ret, md_scan_id>>
    /\ UNCHANGED <<gate_vars, roi_vars, rd_vars, conv_vars>>

NextScan ==
    \/ \E m \in Mixins : pre_scan_start(m)
    \/ get_last_id
    \/ \E step \in ProcSteps : proc_put(step)
    \/ get_new_id
    \/ scan_setup

(***************************************************************************)
(* Specifications.  A component a specification is not about stays as      *)
(* constructed.                                                            *)
(***************************************************************************)

Init == InitGate /\ InitRoi /\ InitRead /\ InitConv /\ InitScan

\* as Init, the registry being that of a one-ROI detector with clean PVs
InitOneRoi ==
    /\ Init
    /\ num_roi = 1
    /\ limit_rois = FALSE
    /\ hw[1][1].enabled = 0

\* the beam gate
SpecGate == InitOneRoi /\ [][NextGate]_vars

\* the beam gate under a fixed threshold
SpecReadings == InitOneRoi /\ [][NextReadings]_vars

\* the ROI registry
SpecRoi == Init /\ [][NextRoi]_vars

\* add() between read_hdf5 calls
AddIdle ==
    /\ rd_pc = "idle"
    /\ \E ev \in EvPairs, n \in AddNames, cs \in ChannelLists : Add(ev, n, cs)

\* set() without a name (name=None) between read_hdf5 calls
SetIdle ==
    /\ rd_pc = "idle"
    /\ \E c \in Channels, r \in RoiNums : Set(c, r, <<20, 61>>, None)

\* the registry filled by add() and set(), and read_hdf5 calls on it
NextArchive == AddIdle \/ SetIdle \/ NextRead

SpecArchive == InitOneRoi /\ [][NextArchive]_vars

\* the converters called on their own and in round trips
SpecConvert == InitOneRoi /\ [][NextConvert]_vars

\* plans running _pre_scan one after the other
SpecScan == InitOneRoi /\ [][NextScan]_vars

Next == NextGate \/ NextRoi \/ NextRead \/ NextConvert \/ NextScan

Spec == Init /\ [][Next]_vars

(***************************************************************************)
(* Claims about the beam gate, checked under SpecGate.                     *)
(***************************************************************************)
EvalOps == {"_shutter_changed", "_current_changed", "min_current"}

\* C2 (as stated): every token trigger() ever returned is done once an
\* evaluation has found the gate usable, whatever reads came in between.
\* The gate becomes usable only inside an evaluation, and a token created
\* while it is usable is done at once, so in a usable state every token
\* that exists has met such an evaluation.
C2_EveryReturnedWaiterFulfilled ==
    Usable => \A t \in DOMAIN done : done[t]

\* C2 (amended): an evaluation that finds the gate usable marks done, all
\* together, every token that is registered in _statuses at that moment (a
\* token a read() removed before is not among them); no registered token is
\* left not-done in a usable state; trigger() while usable returns a token
\* that is done and not registered, trigger() while blocked returns one
\* that is not done and registered.
C2_RegisteredWaitersFulfilled ==
    [][ /\ (gate_op'.name \in EvalOps /\ gate_op'.err = "none" /\ Usable')
              => \A t \in Range(_statuses) : done'[t]
        /\ Usable' => \A t \in Range(_statuses') : done'[t]
        /\ gate_op'.name = "trigger"
              => IF Usable
                 THEN done'[gate_op'.ret] /\ gate_op'.ret \notin Range(_statuses')
                 ELSE ~done'[gate_op'.ret] /\ gate_op'.ret \in Range(_statuses')
      ]_vars

\* C2 witness: an evaluation has just found the gate usable with two
\* waiters registered, both now done.
C2_Witness ==
    /\ gate_op.name \in EvalOps
    /\ Usable
    /\ Len(_statuses) = 2
    /\ \A t \in Range(_statuses) : done[t]

\* C3: after the min_current setter, no error was raised, the threshold is
\* the value passed and _current_ok equals (last observed current > value).
C3_ThresholdChangeReevaluates ==
    gate_op.name = "min_current"
        => /\ gate_op.err = "none"
           /\ _min_current = gate_op.arg
           /\ CanCompare(beam_current, gate_op.arg)
                 => _current_ok = (beam_current[1] > gate_op.arg[1])

\* C8: whenever the gate is usable between inputs, no waiter is registered.
C8_NoWaiterWhileUsable ==
    Usable => _statuses = <<>>

\* C9: `done = True` is never executed on a token that is already done.
C9_FulfilledAtMostOnce ==
    [][ \A i \in DOMAIN marked' :
            marked'[i] \in DOMAIN done => ~done[marked'[i]] ]_vars

\* C10: no handler of the gate raises; a missing current or threshold
\* leaves the gate not usable instead.
C10_GateNeverFails ==
    /\ gate_op.err = "none"
    /\ (IsNone(beam_current) \/ IsNone(_min_current)) => ~Usable

(***************************************************************************)
(* Claims about read_hdf5, checked under SpecArchive.                      *)
(***************************************************************************)
AllFail(opens) == \A i \in DOMAIN opens : opens[i] = "fail"

\* C1: with wait=True and no Ctrl-C, a call whose opens fail on attempts
\* 1..k-1 and succeed on attempt k <= max_retries ends by yielding the
\* snapshots, and a call whose max_retries attempts all fail ends with the
\* exceeded error.
C1_RetryUntilOpen ==
    (rd_pc = "done" /\ rd_args.wait /\ "interrupt" \notin Range(rd_events))
        => /\ ( /\ rd_opens # <<>>
                /\ rd_opens[Len(rd_opens)] = "ok"
                /\ AllFail(SubSeq(rd_opens, 1, Len(rd_opens) - 1)) )
              => rd_result = "snapshots"
           /\ (Len(rd_opens) = rd_args.max_retries /\ AllFail(rd_opens))
              => rd_result = "RuntimeError: exceeded maximum retries"

(***************************************************************************)
(* Claims about the ROI registry, checked under SpecRoi.                   *)
(***************************************************************************)
Cleared == [bin_low |-> 0, bin_high |-> 0, enabled |-> 0]
NonZero(op) == ~(op.ev_low = 0 /\ op.ev_high = 0)
Occupied(cfg, c) == IF c \in DOMAIN cfg THEN DOMAIN cfg[c] ELSE {}
LowestFree(cfg, c) ==
    CHOOSE n \in 1..(Cardinality(Occupied(cfg, c)) + 1) :
        /\ n \notin Occupied(cfg, c)
        /\ \A m \in 1..(n - 1) : m \in Occupied(cfg, c)

\* C4: with limit_rois, a set() at a roi number above num_roi with energies
\* not both zero raises the capacity error, leaves _roi_config (its set of
\* channels included) as it was and writes no PV.
C4_StrictLimitMutatesNothing ==
    [][ ( /\ roi_op'.name = "set"
          /\ limit_rois
          /\ roi_op'.roi > num_roi
          /\ NonZero(roi_op') )
        => /\ roi_op'.err = "ValueError"
           /\ DOMAIN _roi_config' = DOMAIN _roi_config
           /\ _roi_config' = _roi_config
           /\ puts' = <<>>
           /\ hw' = hw ]_vars

\* C5: set(channel, roi, lo, hi) with energies not both zero, followed at
\* once by clear(channel, roi), leaves no entry at (channel, roi); if the
\* entry had a hardware handle its PVs then read low 0, high 0, disabled.
C5_SetThenClear ==
    [][ ( /\ roi_op.name = "set"
          /\ NonZero(roi_op)
          /\ roi_op'.name = "clear"
          /\ roi_op'.channel = roi_op.channel
          /\ roi_op'.roi = roi_op.roi )
        => LET c == roi_op.channel
               r == roi_op.roi
           IN  /\ r \notin Occupied(_roi_config', c)
               /\ ( /\ r \in Occupied(_roi_config, c)
                    /\ ~IsNone(_roi_config[c][r].epics_roi) )
                  => hw'[c][r] = Cleared ]_vars

\* C5 witness: a clear() has just removed a hardware-backed entry: it wrote
\* the three PVs of the ROI, which now read cleared, and the entry is gone.
C5_Witness ==
    /\ roi_op.name = "clear"
    /\ roi_op.roi <= num_roi
    /\ Len(puts) = 3
    /\ hw[roi_op.channel][roi_op.roi] = Cleared
    /\ roi_op.roi \notin Occupied(_roi_config, roi_op.channel)

\* the entry add() is to store on channel c
IsNewDef(d, c, op) ==
    /\ d.chan = c
    /\ d.ev_low = op.ev_low
    /\ d.ev_high = op.ev_high

\* C6 (as stated): every add() stores the new definition, on each channel
\* given, at the lowest roi number >= 1 unused on that channel, and changes
\* no slot that was occupied.
C6_AddStoresAtLowestFree ==
    [][ roi_op'.name = "add"
        => \A c \in Range(roi_op'.channels[1]) :
              LET n == LowestFree(_roi_config, c)
              IN  /\ n \in Occupied(_roi_config', c)
                  /\ IsNewDef(_roi_config'[c][n], c, roi_op')
                  /\ \A m \in Occupied(_roi_config, c) :
                        /\ m \in Occupied(_roi_config', c)
                        /\ _roi_config'[c][m] = _roi_config[c][m] ]_vars

\* C6 (amended): an add() with energies not both zero (after int()) that
\* does not raise the capacity error stores the new definition, on each
\* channel given, at the lowest roi number >= 1 unused on that channel and
\* nowhere else, so that a channel holding exactly 1..k then holds exactly
\* 1..k+1; no add(), failed or not, changes or removes an occupied slot.
C6_SuccessfulAddStoresAtLowestFree ==
    [][ roi_op'.name = "add"
        => /\ \A c \in DOMAIN _roi_config : \A m \in DOMAIN _roi_config[c] :
                 /\ m \in Occupied(_roi_config', c)
                 /\ _roi_config'[c][m] = _roi_config[c][m]
           /\ (NonZero(roi_op') /\ roi_op'.err = "none")
              => \A c \in Range(roi_op'.channels[1]) :
                    LET n == LowestFree(_roi_config, c)
                    IN  /\ Occupied(_roi_config', c)
                              = Occupied(_roi_config, c) \cup {n}
                        /\ IsNewDef(_roi_config'[c][n], c, roi_op')
                        /\ (Occupied(_roi_config, c) = 1..(n - 1))
                              => Occupied(_roi_config', c) = 1..n ]_vars

\* C6 witness: an add() has just filled the gap at roi 1 below an occupied
\* roi 2 on channel 1.
C6_Witness ==
    /\ roi_op.name = "add"
    /\ roi_op.err = "none"
    /\ NonZero(roi_op)
    /\ Occupied(_roi_config, 1) = {1, 2}
    /\ _roi_config[1][1].name = _get_roi_name(1, <<97>>)
    /\ _roi_config[1][2].name # _get_roi_name(1, <<97>>)

\* C7: when the PVs of a hardware ROI hold low <= high and a set() or
\* clear() on it asks for bin_low <= bin_high, the PVs hold low <= high
\* after each single write the call issues.
C7_NoTransientLowAboveHigh ==
    [][ ( /\ roi_op'.name \in {"set", "clear"}
          /\ roi_op'.roi <= num_roi
          /\ hw[roi_op'.channel][roi_op'.roi].bin_low
                <= hw[roi_op'.channel][roi_op'.roi].bin_high
          /\ ev_to_bin(roi_op'.ev_low) <= ev_to_bin(roi_op'.ev_high) )
        => \A k \in 1..Len(puts') :
              LET h == ApplyPuts(hw[roi_op'.channel][roi_op'.roi],
                                 SubSeq(puts', 1, k))
              IN  /\ puts'[k].channel = roi_op'.channel
                  /\ puts'[k].roi_num = roi_op'.roi
                  /\ h.bin_low <= h.bin_high ]_vars

\* C7 witness: a set() asking for bin_low <= bin_high has just gone through
\* the zero-low step: four writes, the first one zeroing bin_low.
C7_Witness ==
    /\ roi_op.name = "set"
    /\ NonZero(roi_op)
    /\ ev_to_bin(roi_op.ev_low) <= ev_to_bin(roi_op.ev_high)
    /\ Len(puts) = 4
    /\ puts[1].pv = "bin_low" /\ puts[1].val = 0
    /\ hw[roi_op.channel][roi_op.roi].bin_low
          <= hw[roi_op.channel][roi_op.roi].bin_high

(***************************************************************************)
(* Further claims about read_hdf5, checked under SpecArchive.              *)
(***************************************************************************)
StopEffects == {"sleep", "capture_put_0", "acquire_put_0"}

\* C11: a call with wait=False whose first open fails (no Ctrl-C) ends with
\* the retry-disabled error after that single attempt, having neither slept
\* nor written 0 to the capture and acquire PVs.
C11_NoWaitFailsAtOnce ==
    ( /\ rd_pc = "done"
      /\ ~rd_args.wait
      /\ rd_opens # <<>>
      /\ rd_opens[1] = "fail"
      /\ "interrupt" \notin Range(rd_events) )
    => /\ rd_result = "RuntimeError: retry disabled"
       /\ Len(rd_opens) = 1
       /\ Range(rd_events) \cap StopEffects = {}

(***************************************************************************)
(* Further claims about the ROI registry, checked under SpecRoi.           *)
(***************************************************************************)
Full(cfg, c) == (1..num_roi) \subseteq Occupied(cfg, c)

\* C12: with limit_rois, an add() naming a channel whose rois 1..num_roi
\* are all occupied raises the capacity error and leaves that channel's
\* entries as they were; with limit_rois no add() leaves an entry at a roi
\* number above num_roi on any channel.
C12_StrictAddStaysWithinCapacity ==
    [][ (roi_op'.name = "add" /\ limit_rois)
        => /\ \A c \in Range(roi_op'.channels[1]) :
                 Full(_roi_config, c)
                 => /\ roi_op'.err = "ValueError"
                    /\ _roi_config'[c] = _roi_config[c]
           /\ \A c \in DOMAIN _roi_config' :
                 \A r \in DOMAIN _roi_config'[c] : r <= num_roi ]_vars

\* C12 witness: with limit_rois an add() has just been refused on channel 1,
\* whose rois 1..num_roi are all occupied.
C12_Witness ==
    /\ roi_op.name = "add"
    /\ limit_rois
    /\ roi_op.err = "ValueError"
    /\ Full(_roi_config, 1)
    /\ 1 \in Range(roi_op.channels[1])

\* C13: after every set, clear, clear_all and add, each stored definition
\* at (channel, roi) holds the EpicsROI of that channel and roi when
\* roi <= num_roi and no EpicsROI otherwise; without limit_rois a set() of
\* energies not both zero at a roi above num_roi raises nothing, stores the
\* definition without an EpicsROI and writes no PV.
C13_HandleIffWithinCapacity ==
    [][ /\ \A c \in DOMAIN _roi_config' : \A r \in DOMAIN _roi_config'[c] :
              _roi_config'[c][r].epics_roi
                  = IF r <= num_roi THEN Val(EpicsROI(c, r)) ELSE None
        /\ ( /\ roi_op'.name = "set"
             /\ ~limit_rois
             /\ roi_op'.roi > num_roi
             /\ NonZero(roi_op') )
           => /\ roi_op'.err = "none"
              /\ roi_op'.roi \in Occupied(_roi_config', roi_op'.channel)
              /\ IsNone(_roi_config'[roi_op'.channel][roi_op'.roi].epics_roi)
              /\ IsNewDef(_roi_config'[roi_op'.channel][roi_op'.roi],
                          roi_op'.channel, roi_op')
              /\ puts' = <<>>
              /\ hw' = hw ]_vars

\* C13 witness: a set() has just stored a definition above num_roi, without
\* an EpicsROI and without a PV write, next to one that has its EpicsROI.
C13_Witness ==
    /\ roi_op.name = "set"
    /\ roi_op.roi > num_roi
    /\ roi_op.roi \in Occupied(_roi_config, roi_op.channel)
    /\ IsNone(_roi_config[roi_op.channel][roi_op.roi].epics_roi)
    /\ puts = <<>>
    /\ 1 \in Occupied(_roi_config, roi_op.channel)
    /\ ~IsNone(_roi_config[roi_op.channel][1].epics_roi)

(***************************************************************************)
(* Claim about the converters, checked under SpecConvert.                  *)
(***************************************************************************)
\* C14: ev_to_bin(bin_to_ev(b)) = b for every bin number b handed in, and
\* for every energy e >= 0 handed in, bin_to_ev(ev_to_bin(e)) is the
\* largest multiple of 10 not above e: it is e when e is a multiple of 10
\* and less than 10 below e otherwise.
C14_RoundTrip ==
    Len(cv_calls) = 2
    => LET x == cv_calls[1].arg
           y == cv_calls[2].ret
       IN  /\ cv_calls[2].arg = cv_calls[1].ret
           /\ cv_calls[1].fn = "bin_to_ev" => y = x
           /\ cv_calls[1].fn = "ev_to_bin"
                 => /\ y % 10 = 0
                    /\ y <= x
                    /\ x < y + 10
                    /\ (x % 10 = 0) <=> (y = x)

\* C14 witness: an energy that is no multiple of 10 has gone through
\* ev_to_bin and back through bin_to_ev, and came back smaller.
C14_Witness ==
    /\ Len(cv_calls) = 2
    /\ cv_calls[1].fn = "ev_to_bin"
    /\ cv_calls[1].arg % 10 = 7
    /\ cv_calls[2].fn = "bin_to_ev"
    /\ cv_calls[2].ret = cv_calls[1].arg - 7

\* C15: a set() with both energies zero, or a clear(), on a (channel, roi)
\* that holds no definition - the channel never used included - raises
\* nothing, writes no PV and leaves _roi_config, its set of channels
\* included, as it was.
C15_ClearAbsentIsNoOp ==
    [][ ( /\ roi_op'.name \in {"set", "clear"}
          /\ ~NonZero(roi_op')
          /\ roi_op'.roi \notin Occupied(_roi_config, roi_op'.channel) )
        => /\ roi_op'.err = "none"
           /\ puts' = <<>>
           /\ hw' = hw
           /\ DOMAIN _roi_config' = DOMAIN _roi_config
           /\ _roi_config' = _roi_config ]_vars

\* the definitions of channel c that hold an EpicsROI
Handles(cfg, c) ==
    {cfg[c][r].epics_roi[1] : r \in {q \in Occupied(cfg, c) :
                                        ~IsNone(cfg[c][q].epics_roi)}}

\* the channels a clear_all call is to empty
Given(op, cfg) ==
    IF IsNone(op.channels) THEN DOMAIN cfg ELSE Range(op.channels[1])

\* C16: every clear_all(channels), whether or not a listed channel holds a
\* definition, raises nothing; afterwards each listed channel (every
\* registered channel when channels is omitted) holds no definition, each
\* EpicsROI that was stored on them reads low 0, high 0, disabled, and the
\* definitions of the other channels are as they were.
C16_ClearAllEmptiesGivenChannels ==
    [][ roi_op'.name = "clear_all"
        => LET given == Given(roi_op', _roi_config)
           IN  /\ roi_op'.err = "none"
               /\ \A c \in given : Occupied(_roi_config', c) = {}
               /\ \A c \in given : \A e \in Handles(_roi_config, c) :
                     hw'[e.channel][e.roi_num] = Cleared
               /\ \A c \in DOMAIN _roi_config \ given :
                     /\ c \in DOMAIN _roi_config'
                     /\ _roi_config'[c] = _roi_config[c] ]_vars

(***************************************************************************)
(* Claims about the snapshots and the interruption of read_hdf5, checked   *)
(* under SpecArchive.                                                      *)
(***************************************************************************)
\* how many elements of the sequence s equal x
Count(s, x) == Cardinality({i \in DOMAIN s : s[i] = x})

\* the snapshot due for every stored definition, in some order
DueSnapshots ==
    LET stored == AllRois(_roi_config, Ascending(DOMAIN _roi_config))
    IN  [i \in DOMAIN stored |-> Yielded(stored[i])]

\* C17: a call with the default rois that has opened the archive and gone
\* on to the extraction ends by yielding one snapshot for each stored
\* definition, in ascending order of name, each with the channel, name and
\* energies of its definition, no data of the registry's EpicsROI, and bins
\* that are the energies over 10, truncated.
C17_YieldsAllInNameOrder ==
    (rd_pc = "done" /\ hdf = "open" /\ retry < rd_args.max_retries)
    => /\ rd_result = "snapshots"
       /\ Len(rd_out) = NumDefs(_roi_config)
       /\ \A i \in DOMAIN DueSnapshots :
             Count(rd_out, DueSnapshots[i])
                 = Count(DueSnapshots, DueSnapshots[i])
       /\ \A i \in DOMAIN rd_out : \A j \in DOMAIN rd_out :
             i < j => ~StrLess(rd_out[j].name[1], rd_out[i].name[1])
       /\ \A i \in DOMAIN rd_out :
             /\ rd_out[i].bin_low = ev_to_bin(rd_out[i].ev_low)
             /\ rd_out[i].bin_high = ev_to_bin(rd_out[i].ev_high)

\* C18: a Ctrl-C during an h5py.File attempt or during the sleep after a
\* failed one ends the call with the interrupted error; it is the last
\* effect of the call - no open attempt, sleep or write to the capture and
\* acquire PVs follows it - and nothing is yielded.
C18_InterruptEndsCall ==
    "interrupt" \in Range(rd_events)
    => /\ rd_pc = "done"
       /\ rd_result = "RuntimeError: interrupted by Ctrl-C"
       /\ rd_events[Len(rd_events)] = "interrupt"
       /\ Count(rd_events, "interrupt") = 1
       /\ rd_opens[Len(rd_opens)] \in {"interrupt", "fail"}
       /\ Len(rd_opens) = retry
       /\ rd_out = <<>>

\* C18 witness: the call was interrupted in the sleep of its second failed
\* attempt, after a first failed attempt that slept and sent the signals.
C18_Witness ==
    /\ rd_pc = "done"
    /\ rd_result = "RuntimeError: interrupted by Ctrl-C"
    /\ rd_opens = <<"fail", "fail">>
    /\ Count(rd_events, "sleep") = 1
    /\ rd_events[Len(rd_events)] = "interrupt"

(***************************************************************************)
(* Claim about the gate under a fixed threshold, checked under             *)
(* SpecReadings.                                                           *)
(***************************************************************************)
\* C19: the gate starts not usable, and after any shutter and current
\* readings it is usable exactly when the last shutter reading was 1 and
\* the last current reading was greater than min_current: not when a
\* reading of either kind is still missing, and not when the current
\* equals min_current.
C19_UsableIffLastReadingsGood ==
    /\ _min_current = Val(100)
    /\ Usable <=> ( /\ shutter_status = Val(1)
                    /\ ~IsNone(beam_current)
                    /\ beam_current[1] > _min_current[1] )
    /\ (IsNone(shutter_status) \/ IsNone(beam_current)) => ~Usable
    /\ beam_current = _min_current => ~Usable

\* C19 witness: a current reading above the threshold has just made the
\* gate usable, the shutter having reported open before.
C19_Witness ==
    /\ gate_op.name = "_current_changed"
    /\ beam_current = Val(150)
    /\ shutter_status = Val(1)
    /\ Usable

(***************************************************************************)
(* Claim about the gate's status-change warnings, checked under SpecGate.  *)
(***************************************************************************)
\* the handler just run evaluated the status (ran _check_status)
Evaluated(op) ==
    op.name \in {"_shutter_changed", "_current_changed"} /\ op.err = "none"

\* the status-change warnings are among the log records
Announced(log) == \E i \in DOMAIN log : log[i].msg = "Beam status changed:"

RECURSIVE BoundWrites(_)
BoundWrites(ps) ==
    IF ps = <<>> THEN <<>>
    ELSE (IF Head(ps).pv \in {"bin_low", "bin_high"} THEN <<Head(ps)>> ELSE <<>>)
         \o BoundWrites(Tail(ps))

\* C21: after a set() with energies not both zero at a roi within num_roi,
\* the PVs of that ROI hold the bins asked for (the energies over 10,
\* truncated), the last two writes to the bounds were bin_high then
\* bin_low, and the ROI is enabled exactly when bin_high > bin_low; the
\* PVs of the other ROIs are as they were.
C21_EnableFollowsBounds ==
    [][ ( /\ roi_op'.name = "set"
          /\ roi_op'.roi <= num_roi
          /\ NonZero(roi_op') )
        => LET c == roi_op'.channel
               r == roi_op'.roi
               lo == ev_to_bin(roi_op'.ev_low)
               hi == ev_to_bin(roi_op'.ev_high)
               bw == BoundWrites(puts')
           IN  /\ roi_op'.err = "none"
               /\ hw'[c][r].bin_low = lo
               /\ hw'[c][r].bin_high = hi
               /\ hw'[c][r].enabled = (IF hi > lo THEN 1 ELSE 0)
               /\ Len(bw) >= 2
               /\ bw[Len(bw) - 1].pv = "bin_high" /\ bw[Len(bw) - 1].val = hi
               /\ bw[Len(bw)].pv = "bin_low" /\ bw[Len(bw)].val = lo
               /\ puts'[Len(puts')].pv = "enabled"
               /\ \A i \in DOMAIN puts' :
                     puts'[i].channel = c /\ puts'[i].roi_num = r
               /\ \A c2 \in DOMAIN hw : \A r2 \in DOMAIN hw[c2] :
                     (c2 # c \/ r2 # r) => hw'[c2][r2] = hw[c2][r2] ]_vars

\* C21 witness: a set() asking for equal non-zero-energy bounds has just
\* left its ROI programmed and disabled.
C21_Witness ==
    /\ roi_op.name = "set"
    /\ roi_op.roi <= num_roi
    /\ NonZero(roi_op)
    /\ ev_to_bin(roi_op.ev_high) = ev_to_bin(roi_op.ev_low)
    /\ hw[roi_op.channel][roi_op.roi].enabled = 0
    /\ puts # <<>>
    /\ puts[Len(puts)].pv = "enabled"

(***************************************************************************)
(* Claim about the retry loop of read_hdf5, checked under SpecArchive.     *)
(***************************************************************************)
\* the events of a call without the error log
RECURSIVE WithoutLog(_)
WithoutLog(es) ==
    IF es = <<>> THEN <<>>
    ELSE (IF Head(es) = "log_error_still_open" THEN <<>> ELSE <<Head(es)>>)
         \o WithoutLog(Tail(es))

\* C22: in a call with wait=True that no Ctrl-C interrupts, h5py.File is
\* tried at most max_retries times; each failed try is followed by one
\* sleep, one capture.put(0) and one acquire.put(0) and by no more of them
\* before the next try; the 'still open' error is logged right after the
\* first failed try and never again in the call.
C22_BoundedRetry ==
    (rd_args.wait /\ "interrupt" \notin Range(rd_events))
    => LET es == WithoutLog(rd_events)
           fails == {i \in DOMAIN rd_events : rd_events[i] = "open_fail"}
       IN  /\ Len(rd_opens) <= rd_args.max_retries
           /\ Count(rd_events, "open_fail") + Count(rd_events, "open_ok")
                 = Len(rd_opens)
           /\ Count(rd_events, "sleep") = Count(rd_opens, "fail")
           /\ Count(rd_events, "capture_put_0") = Count(rd_opens, "fail")
           /\ Count(rd_events, "acquire_put_0") = Count(rd_opens, "fail")
           /\ \A i \in DOMAIN es :
                 es[i] = "open_fail"
                 => /\ i + 3 <= Len(es)
                    /\ es[i + 1] = "sleep"
                    /\ es[i + 2] = "capture_put_0"
                    /\ es[i + 3] = "acquire_put_0"
           /\ Count(rd_events, "log_error_still_open")
                 = (IF fails = {} THEN 0 ELSE 1)
           /\ \A i \in fails :
                 (\A j \in fails : i <= j)
                 => rd_events[i + 1] = "log_error_still_open"

\* C22 witness: a call with wait=True has failed to open twice: two sleeps,
\* two pairs of PV writes, one logged error.
C22_Witness ==
    /\ rd_args.wait
    /\ rd_opens = <<"fail", "fail">>
    /\ Count(rd_events, "sleep") = 2
    /\ Count(rd_events, "acquire_put_0") = 2
    /\ Count(rd_events, "log_error_still_open") = 1

(***************************************************************************)
(* Claims about the waiters of the gate, checked under SpecGate.           *)
(***************************************************************************)
\* the tokens a read() removed before they were done
Dropped(sts, d) == {t \in DOMAIN d : ~d[t] /\ t \notin Range(sts)}

\* C23: read() empties _statuses, marks no token done and leaves
\* _shutter_ok, _current_ok, _min_current and _last_status as they were; a
\* token that is not done and no longer registered stays not done and
\* unregistered whatever happens next, a later change to usable included.
C23_ReadDropsWaiters ==
    [][ /\ gate_op'.name = "read"
           => /\ _statuses' = <<>>
              /\ done' = done
              /\ marked' = <<>>
              /\ gate_op'.err = "none"
              /\ UNCHANGED <<_shutter_ok, _current_ok, _min_current,
                             _last_status>>
        /\ Dropped(_statuses, done) \subseteq Dropped(_statuses', done')
      ]_vars

\* C23 witness: an evaluation has just found the gate usable while a token
\* that a read() had removed is still not done.
C23_Witness ==
    /\ Evaluated(gate_op)
    /\ Usable
    /\ Val(TRUE) = _last_status
    /\ Dropped(_statuses, done) # {}

\* C24: `done = True` is executed on a token only by trigger() called while
\* the gate is usable or by an evaluation that has just computed the status
\* true; whenever it is executed, and whenever a token goes from not done
\* to done, _shutter_ok and _current_ok are both true; no token goes from
\* done back to not done and no token disappears.
C24_DoneOnlyWhileUsable ==
    [][ /\ marked' # <<>>
           => /\ _shutter_ok' /\ _current_ok'
              /\ \/ gate_op'.name = "trigger" /\ Usable
                 \/ Evaluated(gate_op')
        /\ \A t \in DOMAIN done' :
              (done'[t] /\ (t \notin DOMAIN done \/ ~done[t]))
              => /\ _shutter_ok' /\ _current_ok'
                 /\ t \in Range(marked')
        /\ \A t \in DOMAIN done : t \in DOMAIN done' /\ (done[t] => done'[t])
      ]_vars

\* C24 witness: an evaluation has just marked the one registered token
\* done, the gate being usable.
C24_Witness ==
    /\ Evaluated(gate_op)
    /\ Len(marked) = 1
    /\ done[marked[1]]
    /\ _shutter_ok /\ _current_ok
    /\ Len(done) = 1

\* C25: a set() or clear() at (channel, roi), raising or not, leaves every
\* definition stored at another (channel, roi) pair in place and unaltered
\* and stores none there; a set() with energies not both zero that does not
\* raise leaves at (channel, roi) the definition with the channel, the
\* name and the int() of the energies it was given, whatever was there.
C25_SetAndClearAreLocal ==
    [][ roi_op'.name \in {"set", "clear"}
        => LET c == roi_op'.channel
               r == roi_op'.roi
           IN  /\ \A c2 \in DOMAIN _roi_config \cup DOMAIN _roi_config' :
                     \A r2 \in Occupied(_roi_config, c2)
                                  \cup Occupied(_roi_config', c2) :
                        (c2 # c \/ r2 # r)
                        => /\ r2 \in Occupied(_roi_config, c2)
                           /\ r2 \in Occupied(_roi_config', c2)
                           /\ _roi_config'[c2][r2] = _roi_config[c2][r2]
               /\ ( /\ roi_op'.name = "set"
                    /\ NonZero(roi_op')
                    /\ roi_op'.err = "none" )
                  => /\ r \in Occupied(_roi_config', c)
                     /\ _roi_config'[c][r].chan = c
                     /\ _roi_config'[c][r].name = roi_op'.rname
                     /\ _roi_config'[c][r].ev_low = roi_op'.ev_low
                     /\ _roi_config'[c][r].ev_high = roi_op'.ev_high ]_vars

\* C25 witness: a set() has just stored its definition under its own name
\* at a pair next to which a definition made by add() is stored.
C25_Witness ==
    /\ roi_op.name = "set"
    /\ roi_op.err = "none"
    /\ NonZero(roi_op)
    /\ _roi_config[roi_op.channel][roi_op.roi].name = roi_op.rname
    /\ \E r2 \in Occupied(_roi_config, roi_op.channel) :
          /\ r2 # roi_op.roi
          /\ _roi_config[roi_op.channel][r2].name
                = _get_roi_name(roi_op.channel, <<97>>)

(***************************************************************************)
(* Claim about the scan ID, checked under SpecScan.                        *)
(***************************************************************************)
\* the steps of a _pre_scan that got its scan ID
PreScanSteps ==
    <<"scan_id_get", "proc_put_wait", "scan_id_get", "md_store",
      "detector_setup">>

\* C26: get_next_scan_id reads the ID, writes the PROC and waits, then
\* reads the ID again; it returns the ID read last, which differs from the
\* ID read first, or raises when the two are equal, storing and setting up
\* nothing; the mixins store the returned ID minus 1 as md['scan_id']
\* before scan_setup touches a detector.
C26_ScanIdAdvances ==
    /\ sc_events # <<>>
       => /\ sc_events[1] \in Mixins
          /\ Len(sc_events) <= 1 + Len(PreScanSteps)
          /\ Tail(sc_events) = SubSeq(PreScanSteps, 1, Len(sc_events) - 1)
    /\ ~IsNone(sc_ret)
       => /\ sc_ret[1] # last_id
          /\ sc_ret[1] = new_id
          /\ new_id = int(scan_id)
          /\ md_scan_id = Val(sc_ret[1] - 1)
          /\ sc_result # "RuntimeError"
    /\ sc_result = "RuntimeError"
       => /\ IsNone(sc_ret)
          /\ last_id = new_id
          /\ sc_pc = "done"
          /\ Count(sc_events, "md_store") = 0
          /\ Count(sc_events, "detector_setup") = 0
    /\ sc_result = "set_up" => ~IsNone(sc_ret)

\* C26 witness: a second _pre_scan has got a new ID, stored it minus 1 over
\* the one of the first, and set the detectors up.
C26_Witness ==
    /\ sc_result = "set_up"
    /\ sc_ret = Val(2)
    /\ last_id = 1
    /\ md_scan_id = Val(1)
    /\ sc_events[Len(sc_events)] = "detector_setup"

====
